---- MODULE Spec2Model ----
(***************************************************************************)
(* Model of the SEC Form 4 crawl-and-extract engine of                     *)
(* src/src/data/acquisition/utils.py: load_data, get_urls,                 *)
(* find_index_file, get_table_rows, get_form_4_url, parse_xml_url and      *)
(* extract_data.                                                           *)
(*                                                                         *)
(* Python values are tagged records: None, str (a sequence of characters), *)
(* dict, list, a raised exception.  A key that a dict does not hold is     *)
(* mapped to Absent.  HTML pages are what BeautifulSoup sees of them:      *)
(* tables of rows of cells, each cell with its text and its anchors.       *)
(***************************************************************************)
EXTENDS Naturals, Sequences, FiniteSets, Bags, TLC

VARIABLES
    mode,             \* which function runs: "crawl", "locate", "extract"
    pc,               \* position in the running function
    cik_dict,         \* load_data: the registry, a sequence of [name, cik]
    ei,               \* load_data: position in cik_dict.items()
    folder_url_list,  \* load_data: links of the entity's listing page
    fi,               \* load_data: position in folder_url_list
    index_file_url,   \* load_data: result of find_index_file
    xml_url,          \* load_data: result of get_form_4_url
    final_data_df,    \* load_data: the accumulated rows
    resp,             \* the last HTTP response handed to a parser
    ret,              \* the last value returned (or exception raised)
    arg_cik_name,     \* parse_xml_url run alone: the cik_name argument
    derivative_data_df,      \* parse_xml_url run alone: its first local
    non_derivative_data_df,  \* parse_xml_url run alone: its second local
    listed,           \* history: the number of folder links of each entity listed
    provenance,       \* history: for each row of final_data_df, where it came from
    processed,        \* history: one entry per filing the inner loop finished
    fetched           \* history: the requests issued, as <<kind, ei, fi>>

vars == <<mode, pc, cik_dict, ei, folder_url_list, fi, index_file_url, xml_url,
          final_data_df, resp, ret, arg_cik_name, derivative_data_df,
          non_derivative_data_df, listed, provenance, processed, fetched>>

extractLocals == <<arg_cik_name, derivative_data_df, non_derivative_data_df>>

-----------------------------------------------------------------------------
(* Bounds of the model *)

MaxFolders == 2
MaxRows == 2
MaxTx == 2

-----------------------------------------------------------------------------
(* Python values *)

None == [t |-> "none"]
Absent == [t |-> "absent"]
Str(s) == [t |-> "str", s |-> s]
Dict(f) == [t |-> "dict", v |-> f]
List(q) == [t |-> "list", q |-> q]
Bool(b) == [t |-> "bool", b |-> b]
Frame(rows) == [t |-> "df", rows |-> rows]
Raise(e) == [t |-> "exc", e |-> e]
IsExc(x) == x.t = "exc"

HasKey(d, k) == k \in DOMAIN d.v /\ d.v[k].t # "absent"

\* x[k] for a string key k
GetItem(x, k) ==
    CASE x.t = "exc" -> x
      [] x.t = "dict" -> IF HasKey(x, k) THEN x.v[k] ELSE Raise("KeyError")
      [] OTHER -> Raise("TypeError")

\* the characters of the keys the code tests with "in"
c_Table == <<"T","a","b","l","e">>
c_Transaction == <<"T","r","a","n","s","a","c","t","i","o","n">>
c_derivative == <<"d","e","r","i","v","a","t","i","v","e">>
c_nonDerivative == <<"n","o","n","D","e","r","i","v","a","t","i","v","e">>

KeyChars(k) ==
    CASE k = "derivativeTable" -> c_derivative \o c_Table
      [] k = "nonDerivativeTable" -> c_nonDerivative \o c_Table
      [] k = "derivativeTransaction" -> c_derivative \o c_Transaction
      [] k = "nonDerivativeTransaction" -> c_nonDerivative \o c_Transaction

\* sub in s, for sequences of characters
Contains(sub, s) ==
    \E i \in 0..Len(s) : i + Len(sub) <= Len(s) /\ SubSeq(s, i + 1, i + Len(sub)) = sub

\* k in x for a key k: a key test on a dict, a substring test on a str, a
\* membership test on a list, TypeError on None
KeyIn(k, x) ==
    CASE x.t = "exc" -> x
      [] x.t = "dict" -> Bool(HasKey(x, k))
      [] x.t = "str" -> Bool(Contains(KeyChars(k), x.s))
      [] x.t = "list" -> Bool(\E i \in 1..Len(x.q) : x.q[i].t = "str" /\ x.q[i].s = KeyChars(k))
      [] OTHER -> Raise("TypeError")

\* a + b on strings
PyAdd(a, b) ==
    IF a.t = "str" /\ b.t = "str" THEN Str(a.s \o b.s) ELSE Raise("TypeError")

\* sub in x, for a str sub: a substring test on a str, a membership test on
\* a list, a key test on a dict (no key of the documents is a title),
\* TypeError on None
StrIn(sub, x) ==
    CASE x.t = "exc" -> x
      [] x.t = "str" -> Bool(Contains(sub, x.s))
      [] x.t = "list" -> Bool(\E i \in 1..Len(x.q) : x.q[i].t = "str" /\ x.q[i].s = sub)
      [] x.t = "dict" -> Bool(FALSE)
      [] OTHER -> Raise("TypeError")

\* s.split(c)[-1]
SplitLast(s, c) ==
    LET hits == {i \in 1..Len(s) : s[i] = c}
    IN  IF hits = {} THEN s
        ELSE LET last == CHOOSE i \in hits : \A j \in hits : j <= i
             IN  SubSeq(s, last + 1, Len(s))

-----------------------------------------------------------------------------
(* String literals of the code *)

s_index_html == <<"i","n","d","e","x",".","h","t","m","l">>
s_FORM_4 == <<"F","O","R","M"," ","4">>
s_form4 == <<"f","o","r","m","4">>
s_xml == <<"x","m","l">>
s_Common_Stock == <<"C","o","m","m","o","n"," ","S","t","o","c","k">>

-----------------------------------------------------------------------------
(* HTML as BeautifulSoup sees it.  A response is a raised exception or     *)
(* [t |-> "html", tables |-> <<table, ...>>]; a table is [tr |-> rows]; a  *)
(* row is a sequence of cells [t |-> "cell", tag, text, a], a the href of  *)
(* each anchor of the cell in document order (None for an anchor without   *)
(* href).                                                                  *)

RECURSIVE Flatten(_)
Flatten(seqs) == IF seqs = <<>> THEN <<>> ELSE Head(seqs) \o Flatten(Tail(seqs))

\* table.find_all('a'), mapped to code.get('href')
FindAllA(table) == Flatten([i \in 1..Len(table.tr) |->
                      Flatten([j \in 1..Len(table.tr[i]) |-> table.tr[i][j].a])])

\* row.find_all('td')
FindAllTd(row) == SelectSeq(row, LAMBDA c : c.tag = "td")

get_urls(r) ==
    IF IsExc(r) THEN r
    ELSE IF r.tables = <<>> THEN Raise("AttributeError")
    ELSE List(FindAllA(r.tables[1]))

RECURSIVE find_index_file(_)
find_index_file(url_list) ==
    IF url_list = <<>> THEN None
    ELSE LET url == Head(url_list)
         IN  IF url.t # "str" THEN Raise("AttributeError")
             ELSE IF SplitLast(url.s, "-") = s_index_html THEN url
             ELSE find_index_file(Tail(url_list))

get_table_rows(r) ==
    IF IsExc(r) THEN r
    ELSE IF r.tables = <<>> THEN Raise("AttributeError")
    ELSE List(IF r.tables[1].tr = <<>> THEN <<>> ELSE Tail(r.tables[1].tr))

\* col_list[i], i counted from 0 as in the code
ColAt(col_list, i) == IF i + 1 <= Len(col_list) THEN col_list[i + 1] ELSE Raise("IndexError")

\* the condition of line 165: Bool, or the IndexError of a missing cell
RowTestNoFormCheck(col_list) ==
    LET c2 == ColAt(col_list, 2)
    IN  IF IsExc(c2) THEN c2 ELSE Bool(SplitLast(c2.text, ".") = s_xml)

RowTest(col_list) ==
    LET c1 == ColAt(col_list, 1)
        c2 == ColAt(col_list, 2)
    IN  IF IsExc(c1) THEN c1
        ELSE IF Contains(s_FORM_4, c1.text)
             THEN IF IsExc(c2) THEN c2 ELSE Bool(SplitLast(c2.text, ".") = s_xml)
             ELSE IF IsExc(c2) THEN c2
                  ELSE Bool(Contains(s_form4, c2.text) /\ SplitLast(c2.text, ".") = s_xml)

\* one iteration of the loop of lines 163-167: "next", or the value returned or raised
InspectRowSkipShort(row) ==
    LET col_list == FindAllTd(row)
    IN  IF Len(col_list) < 3 THEN [t |-> "next"]
        ELSE IF ~RowTest(col_list).b THEN [t |-> "next"]
        ELSE IF col_list[3].a = <<>> THEN Raise("AttributeError")
        ELSE col_list[3].a[1]

InspectRow(row) ==
    LET col_list == FindAllTd(row)
        test == RowTest(col_list)
    IN  IF IsExc(test) THEN test
        ELSE IF ~test.b THEN [t |-> "next"]
        ELSE IF col_list[3].a = <<>> THEN Raise("AttributeError")
        ELSE col_list[3].a[1]

RECURSIVE Form4Loop(_)
Form4Loop(rows) ==
    IF rows = <<>> THEN None
    ELSE LET x == InspectRow(Head(rows))
         IN  IF x.t = "next" THEN Form4Loop(Tail(rows)) ELSE x

get_form_4_url(r) ==
    LET table_rows_list == get_table_rows(r)
    IN  IF IsExc(table_rows_list) THEN table_rows_list
        ELSE Form4Loop(table_rows_list.q)

-----------------------------------------------------------------------------
(* The ownership document as xmltodict.parse returns it.  An XML response  *)
(* is a raised exception, [t |-> "badxml"] (not well-formed) or            *)
(* [t |-> "xml", v |-> dict].                                              *)

TxKey(derivative_type) ==
    IF derivative_type = "nonDerivativeTable" THEN "nonDerivativeTransaction"
    ELSE "derivativeTransaction"

\* lines 234-235
Normalize(derivatives_data) ==
    IF derivatives_data.t # "list" THEN <<derivatives_data>> ELSE derivatives_data.q

\* the condition of lines 238-239: Bool or the exception raised
QualifiesTitleOnly(od, derivative_data, cik_name) ==
    StrIn(s_Common_Stock, GetItem(GetItem(derivative_data, "securityTitle"), "value"))

Qualifies(od, derivative_data, cik_name) ==
    LET inTitle == StrIn(s_Common_Stock,
                         GetItem(GetItem(derivative_data, "securityTitle"), "value"))
        symbol == GetItem(GetItem(od, "issuer"), "issuerTradingSymbol")
    IN  IF IsExc(inTitle) THEN inTitle
        ELSE IF ~inTitle.b THEN Bool(FALSE)
        ELSE IF IsExc(symbol) THEN symbol
        ELSE Bool(symbol = cik_name)

\* lines 240-243
Price(derivative_data) ==
    LET p == GetItem(GetItem(GetItem(derivative_data, "transactionAmounts"),
                             "transactionPricePerShare"), "value")
    IN  IF IsExc(p) THEN None ELSE p

\* line 255
TagNonDerivative(derivative_type) == "nonDerivativeTable"

Tag(derivative_type) == derivative_type

\* lines 246-256: the row, or the first exception its fields raise
MakeRow(od, derivative_data, derivative_type, price) ==
    LET issuer == GetItem(od, "issuer")
        fields == <<
            GetItem(issuer, "issuerCik"),
            GetItem(issuer, "issuerName"),
            GetItem(issuer, "issuerTradingSymbol"),
            GetItem(GetItem(derivative_data, "securityTitle"), "value"),
            GetItem(GetItem(derivative_data, "transactionDate"), "value"),
            GetItem(GetItem(GetItem(derivative_data, "transactionAmounts"),
                            "transactionShares"), "value"),
            price,
            GetItem(GetItem(GetItem(derivative_data, "ownershipNature"),
                            "directOrIndirectOwnership"), "value") >>
        bad == {i \in 1..Len(fields) : IsExc(fields[i])}
    IN  IF bad # {} THEN fields[CHOOSE i \in bad : \A j \in bad : i <= j]
        ELSE [t |-> "row", v |-> [
                issuerCik |-> fields[1],
                issuerName |-> fields[2],
                issuerTradingSymbol |-> fields[3],
                securityTitle |-> fields[4],
                transactionDate |-> fields[5],
                transactionShares |-> fields[6],
                transactionPricePerShare |-> fields[7],
                directOrIndirectOwnership |-> fields[8],
                derivative_type |-> Tag(derivative_type)]]

\* lines 237-258
RECURSIVE ExtractLoop(_, _, _, _, _)
ExtractLoop(od, derivatives_data, derivative_type, cik_name, data_df) ==
    IF derivatives_data = <<>> THEN Frame(data_df)
    ELSE LET derivative_data == Head(derivatives_data)
             q == Qualifies(od, derivative_data, cik_name)
             row == MakeRow(od, derivative_data, derivative_type, Price(derivative_data))
         IN  IF IsExc(q) THEN q
             ELSE IF ~q.b
                  THEN ExtractLoop(od, Tail(derivatives_data), derivative_type,
                                   cik_name, data_df)
             ELSE IF IsExc(row) THEN row
             ELSE ExtractLoop(od, Tail(derivatives_data), derivative_type,
                              cik_name, Append(data_df, row.v))

extract_data(data, derivative_type, cik_name) ==
    LET od == GetItem(data, "ownershipDocument")
        present == KeyIn(derivative_type, od)
        table == GetItem(od, derivative_type)
        hasTx == KeyIn(TxKey(derivative_type), table)
    IN  IF IsExc(present) THEN present
        ELSE IF ~present.b \/ table = None THEN Frame(<<>>)
        ELSE IF IsExc(hasTx) THEN hasTx
        ELSE IF ~hasTx.b THEN Frame(<<>>)
        ELSE ExtractLoop(od, Normalize(GetItem(table, TxKey(derivative_type))),
                         derivative_type, cik_name, <<>>)

\* pd.concat([a, b], ignore_index=True)
ConcatDropSecond(a, b) == a

Concat(a, b) == a \o b

parse_xml_url(r, cik_name) ==
    IF IsExc(r) THEN r
    ELSE IF r.t = "badxml" THEN Raise("ExpatError")
    ELSE LET derivative == extract_data(r.v, "derivativeTable", cik_name)
             non_derivative == extract_data(r.v, "nonDerivativeTable", cik_name)
         IN  IF IsExc(derivative) THEN derivative
             ELSE IF IsExc(non_derivative) THEN non_derivative
             ELSE Frame(Concat(derivative.rows, non_derivative.rows))

-----------------------------------------------------------------------------
(* Inputs: the registry and the pages the archive may answer with *)

n_ABC == <<"A","B","C">>
n_abc == <<"a","b","c">>
n_XYZ == <<"X","Y","Z">>

base_url == Str(<<"s","e","c",".","g","o","v">>)

Entity(name, cik) == [name |-> Str(name), cik |-> Str(cik)]
e_ABC == Entity(n_ABC, <<"1","2">>)
e_XYZ == Entity(n_XYZ, <<"3","4">>)

\* cik_dict.items(), keys distinct
Registries == {<<>>, <<e_ABC>>, <<e_XYZ>>, <<e_ABC, e_XYZ>>}

Td(text, anchors) == [t |-> "cell", tag |-> "td", text |-> text, a |-> anchors]
Th(text) == [t |-> "cell", tag |-> "th", text |-> text, a |-> <<>>]
Html(tables) == [t |-> "html", tables |-> tables]
ConnectionError == Raise("ConnectionError")
NoTablePage == Html(<<>>)
HeaderRow == <<Th(<<"N">>), Th(<<"S">>), Th(<<"D">>)>>

Digits == <<"1","2","3","4","5","6","7","8","9">>
FolderHref(k) == Str(<<"/", Digits[k]>>)
\* a listing row: name (with its link), size, date
LinkRow(href, text) == <<Td(text, <<href>>), Td(<<"9">>, <<>>), Td(<<"d">>, <<>>)>>
LinkPage(hrefs) ==
    Html(<<[tr |-> <<HeaderRow>> \o [i \in 1..Len(hrefs) |-> LinkRow(hrefs[i], <<"f">>)]]>>)

\* the listing page of an entity: up to MaxFolders filing folders
EntityPages ==
    {ConnectionError, NoTablePage, LinkPage(<<None>>)}
    \cup {LinkPage([i \in 1..k |-> FolderHref(i)]) : k \in 0..MaxFolders}

l_index == <<"1","-">> \o s_index_html
l_index2 == <<"2","-">> \o s_index_html
l_plain_index == s_index_html
l_headers == <<"1","-","i","n","d","e","x","-","h",".","h","t","m","l">>
l_form4_xml == s_form4 \o <<".">> \o s_xml
l_a_xml == <<"a",".">> \o s_xml
l_a_txt == <<"a",".","t","x","t">>

\* the listing page of a filing folder
FilePages ==
    {ConnectionError, NoTablePage,
     LinkPage(<<>>),
     LinkPage(<<Str(l_form4_xml)>>),
     LinkPage(<<Str(l_headers), Str(l_form4_xml)>>),
     LinkPage(<<Str(l_index), Str(l_form4_xml)>>),
     LinkPage(<<Str(l_form4_xml), Str(l_index2), Str(l_index)>>),
     LinkPage(<<Str(l_plain_index)>>),
     LinkPage(<<None, Str(l_index)>>),
     Html(<<[tr |-> <<>>], [tr |-> <<LinkRow(Str(l_index), <<"f">>)>>]>>)}

\* index rows: the cells of a <tr>; the archive's layout is
\* Seq | Description | Document | Type | Size
Href(c) == Str(<<"/", c>>)
r_form4 == <<Td(<<"1">>, <<>>), Td(s_FORM_4, <<>>), Td(l_form4_xml, <<Href("a")>>)>>
r_five == <<Td(<<"1">>, <<>>), Td(s_FORM_4, <<>>), Td(l_form4_xml, <<Href("b")>>),
            Td(<<"4">>, <<>>), Td(<<"9">>, <<>>)>>
r_desc_only == <<Td(<<"1">>, <<>>), Td(<<"X"," ">> \o s_FORM_4, <<>>), Td(l_a_xml, <<Href("c")>>)>>
r_doc_only == <<Td(<<"1">>, <<>>), Td(<<"E","X">>, <<>>), Td(l_form4_xml, <<Href("d")>>)>>
r_txt == <<Td(<<"1">>, <<>>), Td(s_FORM_4, <<>>), Td(l_a_txt, <<Href("e")>>)>>
r_other == <<Td(<<"1">>, <<>>), Td(<<"E","X">>, <<>>), Td(l_a_xml, <<Href("f")>>)>>
r_type_first == <<Td(s_FORM_4, <<>>), Td(<<"E","X">>, <<>>), Td(l_a_xml, <<Href("g")>>)>>
r_desc_form4 == <<Td(<<"4">>, <<>>), Td(l_form4_xml, <<>>), Td(l_a_xml, <<Href("h")>>)>>
r_two_cells == <<Td(<<"1">>, <<>>), Td(s_FORM_4, <<>>)>>
r_one_cell == <<Td(l_form4_xml, <<Href("i")>>)>>
r_no_anchor == <<Td(<<"1">>, <<>>), Td(s_FORM_4, <<>>), Td(l_form4_xml, <<>>)>>
r_no_href == <<Td(<<"1">>, <<>>), Td(s_FORM_4, <<>>), Td(l_form4_xml, <<None>>)>>

IndexRows == {r_form4, r_five, r_desc_only, r_doc_only, r_txt, r_other, r_type_first,
              r_desc_form4, r_two_cells, r_one_cell, r_no_anchor, r_no_href}

RowSeqs(S, n) == UNION {[1..k -> S] : k \in 0..n}

IndexPage(rows) == Html(<<[tr |-> <<HeaderRow>> \o rows]>>)

\* the index pages get_form_4_url is applied to
IndexPagesAll ==
    {ConnectionError, NoTablePage, Html(<<[tr |-> <<>>]>>),
     Html(<<[tr |-> <<HeaderRow, r_other>>], [tr |-> <<HeaderRow, r_form4>>]>>)}
    \cup {IndexPage(rows) : rows \in RowSeqs(IndexRows, MaxRows)}

\* the index pages met in a crawl
IndexPagesCrawl ==
    {ConnectionError, NoTablePage,
     IndexPage(<<>>), IndexPage(<<r_other, r_txt>>),
     IndexPage(<<r_other, r_form4>>), IndexPage(<<r_five>>),
     IndexPage(<<r_two_cells, r_form4>>), IndexPage(<<r_no_href>>)}

-----------------------------------------------------------------------------
(* Ownership documents *)

V(chars) == Dict([value |-> Str(chars)])

t_common == s_Common_Stock
t_classA == <<"A"," ">> \o s_Common_Stock
t_option == <<"S","t","o","c","k"," ","O","p","t","i","o","n">>
t_lower == <<"c","o","m","m","o","n"," ","s","t","o","c","k">>
p_1250 == <<"1","2",".","5","0">>
p_bad == <<"N","/","A">>

Amounts(price) == Dict([transactionShares |-> V(<<"7">>), transactionPricePerShare |-> price])
a_full == Amounts(V(p_1250))
a_malformed == Amounts(V(p_bad))
a_no_price == Amounts(Absent)
a_price_null == Amounts(None)
a_no_value == Amounts(Dict([value |-> Absent, footnoteId |-> None]))
a_value_null == Amounts(Dict([value |-> None]))

Transaction(title, date, amounts) ==
    Dict([securityTitle |-> V(title),
          transactionDate |-> V(date),
          transactionAmounts |-> amounts,
          ownershipNature |-> Dict([directOrIndirectOwnership |-> V(<<"D">>)])])

x_common == Transaction(t_common, <<"d","1">>, a_full)
x_classA == Transaction(t_classA, <<"d","2">>, a_no_price)
x_option == Transaction(t_option, <<"d","3">>, a_full)
x_lower == Transaction(t_lower, <<"d","4">>, a_full)
x_malformed == Transaction(t_common, <<"d","5">>, a_malformed)
x_price_null == Transaction(t_common, <<"d","6">>, a_price_null)
x_no_value == Transaction(t_common, <<"d","7">>, a_no_value)
x_value_null == Transaction(t_common, <<"d","8">>, a_value_null)
x_no_amounts == Transaction(t_common, <<"d","9">>, Absent)
x_amounts_null == Transaction(t_option, <<"d","0">>, None)
\* two <value> elements under securityTitle: xmltodict gives a list
x_title_list ==
    Dict([securityTitle |-> Dict([value |-> List(<<Str(t_common), Str(t_option)>>)]),
          transactionDate |-> V(<<"d","a">>),
          transactionAmounts |-> a_full,
          ownershipNature |-> Dict([directOrIndirectOwnership |-> V(<<"D">>)])])

Transactions == {x_common, x_classA, x_option, x_lower, x_malformed, x_price_null,
                 x_no_value, x_value_null, x_no_amounts, x_amounts_null, x_title_list}

Table(derivative_type, tx) ==
    IF derivative_type = "nonDerivativeTable"
    THEN Dict([nonDerivativeTransaction |-> tx, nonDerivativeHolding |-> Absent])
    ELSE Dict([derivativeTransaction |-> tx, derivativeHolding |-> Absent])

\* the values a table key may have: absent, null, without transactions, an
\* empty transaction element, one transaction, a list of transactions; and
\* off the schema: text only, the transaction key as text, the element twice
TableValues(derivative_type, entries) ==
    {Absent, None, Table(derivative_type, Absent), Table(derivative_type, None),
     Str(<<"t","e","x","t">>), Str(KeyChars(TxKey(derivative_type))),
     List(<<Table(derivative_type, x_common), Table(derivative_type, x_common)>>)}
    \cup {Table(derivative_type, x) : x \in entries}
    \cup {Table(derivative_type, List(q)) : q \in RowSeqs(entries, MaxTx) \ {<<>>}}

Issuer(symbol) == Dict([issuerCik |-> Str(<<"1","2">>),
                        issuerName |-> Str(<<"A"," ","I","n","c">>),
                        issuerTradingSymbol |-> symbol])

Document(symbol, derivativeTable, nonDerivativeTable) ==
    [t |-> "xml", v |-> Dict([ownershipDocument |-> Dict([
        issuer |-> Issuer(symbol),
        derivativeTable |-> derivativeTable,
        nonDerivativeTable |-> nonDerivativeTable])])]

BadXml == [t |-> "badxml"]

\* a document element that holds text only
d_text == [t |-> "xml", v |-> Dict([ownershipDocument |-> Str(<<"x">>)])]

\* the documents extract_data is applied to
DocumentsAll ==
    {d_text} \cup
    {Document(symbol, d, n) :
        symbol \in {Str(n_ABC), Str(n_abc), None},
        d \in TableValues("derivativeTable", {x_common, x_option}),
        n \in TableValues("nonDerivativeTable", Transactions)}

d_one == Document(Str(n_ABC), Absent, Table("nonDerivativeTable", x_common))
d_mixed == Document(Str(n_ABC), Table("derivativeTable", List(<<x_common, x_option>>)),
                    Table("nonDerivativeTable", List(<<x_classA, x_lower>>)))
d_xyz == Document(Str(n_XYZ), Table("derivativeTable", x_malformed), None)
d_lower_symbol == Document(Str(n_abc), Absent, Table("nonDerivativeTable", x_common))
d_null_transaction == Document(Str(n_ABC), None, Table("nonDerivativeTable", None))
d_no_amounts == Document(Str(n_ABC), Absent, Table("nonDerivativeTable", x_no_amounts))
d_empty == Document(Str(n_XYZ), Absent, Absent)
d_title_list == Document(Str(n_ABC), Table("derivativeTable", x_title_list), Absent)

\* the XML responses met in a crawl
XmlResponsesCrawl ==
    {ConnectionError, BadXml, d_one, d_mixed, d_xyz, d_lower_symbol,
     d_null_transaction, d_no_amounts, d_empty, d_title_list}

-----------------------------------------------------------------------------
(* What a document holds, read off its tree: the transaction entries of a  *)
(* table and the entries the filter of section 3 lets through.  Used for   *)
(* the history variables and in the properties, not by the operations.     *)

\* lines 223-235: the list the loop runs over; one that is not a list is
\* wrapped, null included
TableEntries(od, derivative_type) ==
    IF od.t # "dict" THEN <<>>
    ELSE LET tb == od.v[derivative_type]
         IN  IF tb.t # "dict" THEN <<>>
             ELSE LET tx == tb.v[TxKey(derivative_type)]
                  IN  CASE tx.t = "absent" -> <<>>
                        [] tx.t = "list" -> tx.q
                        [] OTHER -> <<tx>>

\* the title holds "Common Stock": in its text, or as one of its values
TitleQualifies(title) ==
    \/ title.t = "str" /\ Contains(s_Common_Stock, title.s)
    \/ title.t = "list" /\ \E i \in 1..Len(title.q) : title.q[i].t = "str" /\ title.q[i].s = s_Common_Stock

IsQualifying(od, entry, cik_name) ==
    /\ entry.t = "dict"
    /\ TitleQualifies(entry.v.securityTitle.v.value)
    /\ od.v.issuer.v.issuerTradingSymbol = cik_name

QualifyingEntries(od, derivative_type, cik_name) ==
    SelectSeq(TableEntries(od, derivative_type), LAMBDA x : IsQualifying(od, x, cik_name))

TableKinds == <<"derivativeTable", "nonDerivativeTable">>

\* for each qualifying entry of the document, in document order: the entity
\* crawled, the filing and the table the entry stands in
Origins(r, cik_name, e, f) ==
    Flatten([k \in 1..2 |->
        [i \in 1..Len(QualifyingEntries(r.v.v.ownershipDocument, TableKinds[k], cik_name)) |->
            [name |-> cik_name, home |-> TableKinds[k], e |-> e, f |-> f]]])

-----------------------------------------------------------------------------
(* load_data *)

Idle == [t |-> "idle"]

CrawlInit ==
    /\ mode = "crawl"
    /\ pc = "entity"
    /\ cik_dict \in Registries
    /\ ei = 1
    /\ folder_url_list = <<>>
    /\ fi = 1
    /\ index_file_url = Idle
    /\ xml_url = Idle
    /\ final_data_df = <<>>
    /\ resp = Idle
    /\ ret = Idle
    /\ arg_cik_name = Idle
    /\ derivative_data_df = Idle
    /\ non_derivative_data_df = Idle
    /\ listed = <<>>
    /\ provenance = <<>>
    /\ processed = <<>>
    /\ fetched = <<>>

\* an exception leaves load_data: nothing is returned
Abort(exc) ==
    /\ pc' = "aborted"
    /\ ret' = exc

\* lines 42-47: the next entity's listing page
GetFolderUrls ==
    /\ mode = "crawl" /\ pc = "entity" /\ ei <= Len(cik_dict)
    /\ \E r \in EntityPages :
        LET out == get_urls(r)
        IN  /\ resp' = r
            /\ fetched' = Append(fetched, <<"listing", ei, 0>>)
            /\ IF IsExc(out)
               THEN /\ Abort(out)
                    /\ UNCHANGED <<folder_url_list, fi, listed>>
               ELSE /\ pc' = "folder"
                    /\ ret' = out
                    /\ folder_url_list' = out.q
                    /\ fi' = 1
                    /\ listed' = Append(listed, Len(out.q))
    /\ UNCHANGED <<mode, cik_dict, ei, index_file_url, xml_url, final_data_df,
                   extractLocals, provenance, processed>>

\* line 48: the inner loop is exhausted
NextEntity ==
    /\ mode = "crawl" /\ pc = "folder" /\ fi > Len(folder_url_list)
    /\ pc' = "entity"
    /\ ei' = ei + 1
    /\ UNCHANGED <<mode, cik_dict, folder_url_list, fi, index_file_url, xml_url,
                   final_data_df, resp, ret, extractLocals, listed, provenance,
                   processed, fetched>>

\* lines 48-53 and the url of line 56: a folder's file listing and its index link
GetFileUrls ==
    /\ mode = "crawl" /\ pc = "folder" /\ fi <= Len(folder_url_list)
    /\ LET url == PyAdd(base_url, folder_url_list[fi])
       IN  IF IsExc(url)
           THEN /\ Abort(url)
                /\ UNCHANGED <<resp, fetched, index_file_url>>
           ELSE \E r \in FilePages :
                LET file_url_list == get_urls(r)
                    found == IF IsExc(file_url_list) THEN file_url_list
                             ELSE find_index_file(file_url_list.q)
                    index_url == PyAdd(base_url, found)
                IN  /\ resp' = r
                    /\ fetched' = Append(fetched, <<"files", ei, fi>>)
                    /\ IF IsExc(found)
                       THEN /\ Abort(found)
                            /\ UNCHANGED index_file_url
                       ELSE /\ index_file_url' = found
                            /\ IF IsExc(index_url)
                               THEN Abort(index_url)
                               ELSE /\ pc' = "index"
                                    /\ ret' = found
    /\ UNCHANGED <<mode, cik_dict, ei, folder_url_list, fi, xml_url, final_data_df,
                   extractLocals, listed, provenance, processed>>

\* lines 55-59: the filing's index page and its Form 4 link
GetForm4Url ==
    /\ mode = "crawl" /\ pc = "index"
    /\ \E r \in IndexPagesCrawl :
        LET out == get_form_4_url(r)
        IN  /\ resp' = r
            /\ fetched' = Append(fetched, <<"index", ei, fi>>)
            /\ IF IsExc(out)
               THEN /\ Abort(out)
                    /\ UNCHANGED <<xml_url, fi, processed>>
               ELSE /\ ret' = out
                    /\ xml_url' = out
                    /\ IF out # None
                       THEN /\ pc' = "xml"
                            /\ UNCHANGED <<fi, processed>>
                       ELSE /\ pc' = "folder"
                            /\ fi' = fi + 1
                            /\ processed' = Append(processed,
                                 [e |-> ei, f |-> fi, form4 |-> FALSE, rows |-> <<>>])
    /\ UNCHANGED <<mode, cik_dict, ei, folder_url_list, index_file_url, final_data_df,
                   extractLocals, listed, provenance>>

\* lines 60-68: the Form 4 document, its rows put in front of the table
ParseXmlUrl ==
    /\ mode = "crawl" /\ pc = "xml"
    /\ \E r \in XmlResponsesCrawl :
        LET cik_name == cik_dict[ei].name
            data_df == parse_xml_url(r, cik_name)
        IN  /\ resp' = r
            /\ fetched' = Append(fetched, <<"xml", ei, fi>>)
            /\ IF IsExc(data_df)
               THEN /\ Abort(data_df)
                    /\ UNCHANGED <<fi, final_data_df, provenance, processed>>
               ELSE /\ ret' = data_df
                    /\ final_data_df' = Concat(data_df.rows, final_data_df)
                    /\ provenance' = Origins(r, cik_name, ei, fi) \o provenance
                    /\ processed' = Append(processed,
                         [e |-> ei, f |-> fi, form4 |-> TRUE, rows |-> data_df.rows])
                    /\ pc' = "folder"
                    /\ fi' = fi + 1
    /\ UNCHANGED <<mode, cik_dict, ei, folder_url_list, index_file_url, xml_url,
                   extractLocals, listed>>

\* line 69
Return ==
    /\ mode = "crawl" /\ pc = "entity" /\ ei > Len(cik_dict)
    /\ pc' = "done"
    /\ ret' = Frame(final_data_df)
    /\ UNCHANGED <<mode, cik_dict, ei, folder_url_list, fi, index_file_url, xml_url,
                   final_data_df, resp, extractLocals, listed, provenance, processed,
                   fetched>>

Next == GetFolderUrls \/ NextEntity \/ GetFileUrls \/ GetForm4Url \/ ParseXmlUrl \/ Return

Spec == CrawlInit /\ [][Next]_vars

-----------------------------------------------------------------------------
(* get_form_4_url applied to one index page *)

crawlState == <<cik_dict, ei, folder_url_list, fi, index_file_url, xml_url,
                final_data_df, listed, provenance, processed, fetched>>

NoCrawl ==
    /\ cik_dict = <<>>
    /\ ei = 1
    /\ folder_url_list = <<>>
    /\ fi = 1
    /\ index_file_url = Idle
    /\ xml_url = Idle
    /\ final_data_df = <<>>
    /\ listed = <<>>
    /\ provenance = <<>>
    /\ processed = <<>>
    /\ fetched = <<>>

LocateInit ==
    /\ mode = "locate"
    /\ pc = "call"
    /\ resp \in IndexPagesAll
    /\ ret = Idle
    /\ arg_cik_name = Idle
    /\ derivative_data_df = Idle
    /\ non_derivative_data_df = Idle
    /\ NoCrawl

\* lines 159-168
LocateForm4 ==
    /\ mode = "locate" /\ pc = "call"
    /\ ret' = get_form_4_url(resp)
    /\ pc' = IF IsExc(ret') THEN "raised" ELSE "returned"
    /\ UNCHANGED <<mode, resp, extractLocals, crawlState>>

LocateNext == LocateForm4

LocateSpec == LocateInit /\ [][LocateNext]_vars

-----------------------------------------------------------------------------
(* parse_xml_url applied to one parsed document, a step per statement *)

ExtractInit ==
    /\ mode = "extract"
    /\ pc = "call"
    /\ resp \in DocumentsAll
    /\ arg_cik_name \in {Str(n_ABC), Str(n_XYZ)}
    /\ ret = Idle
    /\ derivative_data_df = Idle
    /\ non_derivative_data_df = Idle
    /\ NoCrawl

\* lines 195-196
ExtractDerivative ==
    /\ mode = "extract" /\ pc = "call"
    /\ LET out == extract_data(resp.v, "derivativeTable", arg_cik_name)
       IN  IF IsExc(out)
           THEN /\ pc' = "raised"
                /\ ret' = out
                /\ UNCHANGED derivative_data_df
           ELSE /\ pc' = "derivative"
                /\ derivative_data_df' = out
                /\ UNCHANGED ret
    /\ UNCHANGED <<mode, resp, arg_cik_name, non_derivative_data_df, crawlState>>

\* lines 197-198
ExtractNonDerivative ==
    /\ mode = "extract" /\ pc = "derivative"
    /\ LET out == extract_data(resp.v, "nonDerivativeTable", arg_cik_name)
       IN  IF IsExc(out)
           THEN /\ pc' = "raised"
                /\ ret' = out
                /\ UNCHANGED non_derivative_data_df
           ELSE /\ pc' = "nonDerivative"
                /\ non_derivative_data_df' = out
                /\ UNCHANGED ret
    /\ UNCHANGED <<mode, resp, arg_cik_name, derivative_data_df, crawlState>>

\* lines 199-203
ConcatFrames ==
    /\ mode = "extract" /\ pc = "nonDerivative"
    /\ ret' = Frame(Concat(derivative_data_df.rows, non_derivative_data_df.rows))
    /\ pc' = "returned"
    /\ UNCHANGED <<mode, resp, extractLocals, crawlState>>

ExtractNext == ExtractDerivative \/ ExtractNonDerivative \/ ConcatFrames

ExtractSpec == ExtractInit /\ [][ExtractNext]_vars

-----------------------------------------------------------------------------
(* Properties *)

LastFetch == fetched[Len(fetched)]

RowQualifies(row, cik_name) ==
    /\ \/ row.securityTitle.t = "str" /\ Contains(s_Common_Stock, row.securityTitle.s)
       \/ /\ row.securityTitle.t = "list"
          /\ \E i \in 1..Len(row.securityTitle.q) :
                 row.securityTitle.q[i].t = "str" /\ Contains(s_Common_Stock, row.securityTitle.q[i].s)
    /\ row.issuerTradingSymbol = cik_name

\* C1: every record of the Result Table, and every record extract returned
\* for a filing, has "Common Stock" in its security title and an issuer
\* trading symbol equal to the registry name of the entity its filing was
\* crawled under.
C1_ResultRowsQualify ==
    mode = "crawl" =>
        /\ Len(provenance) = Len(final_data_df)
        /\ \A i \in 1..Len(final_data_df) :
               RowQualifies(final_data_df[i], cik_dict[provenance[i].e].name)
        /\ \A k \in 1..Len(processed) : \A i \in 1..Len(processed[k].rows) :
               RowQualifies(processed[k].rows[i], cik_dict[processed[k].e].name)

\* a filing with a matching symbol whose "Stock Option" and "common stock"
\* entries were left out, its two other entries added to the table
C1_Witness ==
    /\ mode = "crawl" /\ pc = "folder"
    /\ resp = d_mixed
    /\ ret.t = "df" /\ Len(ret.rows) = 2
    /\ Len(final_data_df) >= 2

\* C2: a failure while processing one filing (a failed fetch, a fault raised
\* while parsing its listing, index page or XML) does not abort the crawl.
C2_FilingFailureIsContained ==
    ~(/\ mode = "crawl" /\ pc = "aborted"
      /\ LastFetch[1] \in {"files", "index", "xml"}
      /\ ret \in {ConnectionError, Raise("AttributeError"), Raise("IndexError"),
                  Raise("ExpatError")})

\* C3: when find_index_file finds no index link the filing is skipped: no
\* error is raised and the crawl goes on.
C3_MissingIndexIsSkipped ==
    (/\ mode = "crawl" /\ fetched # <<>>
     /\ LastFetch = <<"files", ei, fi>>
     /\ index_file_url = None)
    => (pc # "aborted" /\ ~IsExc(ret))

\* C4: a listing page without a table element gives no links and no error.
C4_NoTableYieldsNoLinks ==
    (/\ mode = "crawl" /\ fetched # <<>>
     /\ LastFetch[1] \in {"listing", "files"}
     /\ resp.t = "html" /\ resp.tables = <<>>)
    => (pc # "aborted" /\ ~IsExc(ret))

\* the non-header rows of the first table, each as its <td> cells
DataRows(r) ==
    LET tr == r.tables[1].tr
    IN  [i \in 1..(IF tr = <<>> THEN 0 ELSE Len(tr) - 1) |-> FindAllTd(tr[i + 1])]

\* line 165 read by cell position: the second cell holds "FORM 4" or the
\* third holds "form4", and the third ends in ".xml"
CodeRule(c) ==
    /\ Len(c) >= 3
    /\ Contains(s_FORM_4, c[2].text) \/ Contains(s_form4, c[3].text)
    /\ SplitLast(c[3].text, ".") = s_xml

\* the rule as the specification words it, over [form type, description, document]
ClaimRule(c) ==
    /\ c[1].text = s_FORM_4 \/ Contains(s_form4, c[2].text)
    /\ SplitLast(c[3].text, ".") = s_xml

First(S) == CHOOSE i \in S : \A j \in S : i <= j

Located == mode = "locate" /\ pc # "call" /\ resp.t = "html" /\ resp.tables # <<>>

\* C5 (as the specification words it): over rows of exactly three cells
\* [form type, description, document link], the link of the first row with
\* form type equal to "FORM 4" or description holding "form4", and a
\* document text ending in ".xml"; none iff there is no such row.
C5_Original ==
    LET rows == DataRows(resp)
        hits == {i \in 1..Len(rows) : ClaimRule(rows[i])}
    IN  (/\ Located
         /\ \A i \in 1..Len(rows) :
                Len(rows[i]) = 3 /\ rows[i][3].a # <<>> /\ rows[i][3].a[1] # None)
        => ret = IF hits = {} THEN None ELSE rows[First(hits)][3].a[1]

\* C5 (amended): the result is decided by the first row that has fewer than
\* three cells or meets the rule of line 165, whose two halves read the
\* second cell and the third cell - the document-link column itself.
C5_Form4RuleByPosition ==
    LET rows == DataRows(resp)
        decisive == {i \in 1..Len(rows) : Len(rows[i]) < 3 \/ CodeRule(rows[i])}
    IN  Located =>
            IF decisive = {} THEN ret = None
            ELSE LET c == rows[First(decisive)]
                 IN  IF Len(c) < 3 THEN ret = Raise("IndexError")
                     ELSE IF c[3].a = <<>> THEN ret = Raise("AttributeError")
                     ELSE ret = c[3].a[1]

\* the second row is taken on its document column alone, after a row whose
\* first cell is "FORM 4" was passed over
C5_Witness ==
    /\ mode = "locate" /\ pc = "returned"
    /\ resp = IndexPage(<<r_type_first, r_doc_only>>)
    /\ ret = Href("d")

\* row i is reached by the loop: no earlier row ended it
Inspected(rows, i) ==
    \A j \in 1..(i - 1) : Len(rows[j]) >= 3 /\ ~CodeRule(rows[j])

\* C9 (as the specification words it): an inspected row that does not have
\* exactly three cells makes the locator raise.
C9_Original ==
    LET rows == DataRows(resp)
    IN  Located =>
            \A i \in 1..Len(rows) :
                (Inspected(rows, i) /\ Len(rows[i]) # 3) => pc = "raised"

\* C9 (amended): an inspected row with fewer than three cells raises
\* IndexError; a row with more than three cells is read by its second and
\* third cells like any other and is accepted when they meet the rule.
C9_ShortRowRaises ==
    LET rows == DataRows(resp)
    IN  Located =>
            \A i \in 1..Len(rows) :
                Inspected(rows, i) =>
                    /\ Len(rows[i]) < 3 => (pc = "raised" /\ ret = Raise("IndexError"))
                    /\ (Len(rows[i]) > 3 /\ CodeRule(rows[i]) /\ rows[i][3].a # <<>>)
                           => (pc = "returned" /\ ret = rows[i][3].a[1])

C9_Witness ==
    /\ mode = "locate" /\ pc = "raised"
    /\ resp = IndexPage(<<r_other, r_two_cells>>)
    /\ ret = Raise("IndexError")

\* C6 (as the specification words it): the tag is "derivative" for an entry
\* of the derivative table and "non-derivative" for one of the other table.
C6_Original ==
    mode = "crawl" =>
        \A i \in 1..Len(final_data_df) :
            i <= Len(provenance) =>
                final_data_df[i].derivative_type =
                    IF provenance[i].home = "derivativeTable"
                    THEN "derivative" ELSE "non-derivative"

\* C6 (amended): the tag of every record is the table key its entry stands
\* under, "derivativeTable" or "nonDerivativeTable", and nothing else.
C6_TagIsTableKey ==
    mode = "crawl" =>
        /\ Len(provenance) = Len(final_data_df)
        /\ \A i \in 1..Len(final_data_df) :
               /\ final_data_df[i].derivative_type = provenance[i].home
               /\ final_data_df[i].derivative_type \in {"derivativeTable", "nonDerivativeTable"}

C6_Witness ==
    /\ mode = "crawl"
    /\ \E i, j \in 1..Len(final_data_df) :
           /\ provenance[i].home = "derivativeTable"
           /\ provenance[j].home = "nonDerivativeTable"

Od == resp.v.v.ownershipDocument

AllQualifying == QualifyingEntries(Od, "derivativeTable", arg_cik_name)
                 \o QualifyingEntries(Od, "nonDerivativeTable", arg_cik_name)

Extracted == mode = "extract" /\ pc \in {"raised", "returned"}

PriceChars == {"0","1","2","3","4","5","6","7","8","9","."}

\* the price the specification asks for: the source value when it is there
\* and well-formed, null otherwise
ExpectedPrice(entry) ==
    LET am == entry.v.transactionAmounts
    IN  IF /\ am.t = "dict"
           /\ am.v.transactionPricePerShare.t = "dict"
           /\ am.v.transactionPricePerShare.v.value.t = "str"
           /\ \A i \in 1..Len(am.v.transactionPricePerShare.v.value.s) :
                  am.v.transactionPricePerShare.v.value.s[i] \in PriceChars
        THEN am.v.transactionPricePerShare.v.value
        ELSE None

\* the document element is a dict and each table is absent, null or a dict
TablesOnSchema ==
    /\ Od.t = "dict"
    /\ \A k \in 1..2 : Od.v[TableKinds[k]].t \in {"absent", "none", "dict"}

NoNullTransaction ==
    /\ TablesOnSchema
    /\ \A k \in 1..2 :
           Od.v[TableKinds[k]].t = "dict"
               => Od.v[TableKinds[k]].v[TxKey(TableKinds[k])] # None

\* C7: a qualifying entry whose price is missing or malformed gives a record
\* with a null price and no error; any other price is the source's value.
C7_MissingPriceIsNull ==
    (Extracted /\ NoNullTransaction) =>
        /\ pc = "returned"
        /\ Len(ret.rows) = Len(AllQualifying)
        /\ \A i \in 1..Len(ret.rows) :
               ret.rows[i].transactionPricePerShare = ExpectedPrice(AllQualifying[i])

EveryQualifyingHasAmounts ==
    \A i \in 1..Len(AllQualifying) : AllQualifying[i].v.transactionAmounts.t = "dict"

\* C8: the two extractions of a document concatenated hold as many records
\* as the two tables hold qualifying entries, whether a table's transaction
\* value is a list, one object, absent or null, and no error is raised.
C8_CountIsSumOfQualifying ==
    (Extracted /\ TablesOnSchema /\ EveryQualifyingHasAmounts) =>
        /\ pc = "returned"
        /\ Len(ret.rows) = Len(AllQualifying)

Count(x, s) == Cardinality({i \in 1..Len(s) : s[i] = x})

SameBag(s1, s2) ==
    /\ Len(s1) = Len(s2)
    /\ \A i \in 1..Len(s1) : Count(s1[i], s1) = Count(s1[i], s2)

FilingOf(p) == <<p.e, p.f>>

\* every folder link of every entity listed, in crawl order
ListedFilings ==
    Flatten([e \in 1..Len(listed) |-> [f \in 1..listed[e] |-> <<e, f>>]])

XmlFetches == SelectSeq(fetched, LAMBDA q : q[1] = "xml")

\* C10: the Result Table holds, as a multiset, exactly the records extracted
\* for the filings processed so far, earlier records staying; a filing is
\* processed once; an XML document is fetched once and only for a filing
\* whose Form 4 link was found; at completion every listed filing has been
\* processed and the table is what is returned.
C10_TableIsAllExtractedRows ==
    mode = "crawl" =>
        /\ SameBag(final_data_df, Flatten([k \in 1..Len(processed) |-> processed[k].rows]))
        /\ \A j, k \in 1..Len(processed) :
               FilingOf(processed[j]) = FilingOf(processed[k]) => j = k
        /\ \A j, k \in 1..Len(XmlFetches) : XmlFetches[j] = XmlFetches[k] => j = k
        /\ \A k \in 1..Len(processed) :
               processed[k].form4 <=>
                   \E j \in 1..Len(XmlFetches) :
                       XmlFetches[j] = <<"xml", processed[k].e, processed[k].f>>
        /\ \A j \in 1..Len(XmlFetches) :
               \/ \E k \in 1..Len(processed) :
                      /\ processed[k].form4
                      /\ XmlFetches[j] = <<"xml", processed[k].e, processed[k].f>>
               \/ /\ pc = "aborted" /\ XmlFetches[j] = LastFetch
                  /\ xml_url.t = "str"
        /\ pc = "done" =>
               /\ Len(listed) = Len(cik_dict)
               /\ [k \in 1..Len(processed) |-> FilingOf(processed[k])] = ListedFilings
               /\ ret = Frame(final_data_df)

\* a finished crawl with two filings that gave records and one skipped for
\* want of a Form 4 row
C10_Witness ==
    /\ mode = "crawl" /\ pc = "done"
    /\ \E j, k, m \in 1..Len(processed) :
           /\ j # k
           /\ processed[j].form4 /\ processed[j].rows # <<>>
           /\ processed[k].form4 /\ processed[k].rows # <<>>
           /\ ~processed[m].form4

====
